---- MODULE Spec2Model ----
(***************************************************************************)
(* CTF backend (src/main.py, src/schemas.py): challenge catalog with       *)
(* startup seeding, submission judge and leaderboard aggregation over a    *)
(* document store with the collections ctfchallenge and ctfsubmission.     *)
(*                                                                         *)
(* Text that the handlers trim (flags, usernames) is a sequence of         *)
(* one-character strings, so that str.strip() is computed character by     *)
(* character.  Text that is only compared or copied is a plain string.     *)
(***************************************************************************)
EXTENDS Integers, Sequences, FiniteSets, TLC

VARIABLES db, challenges, submissions, nextId, req, resp

vars == <<db, challenges, submissions, nextId, req, resp>>

----------------------------------------------------------------------------
(* Bounds *)

\* number of submit calls by the modelled clients
MaxSubs == 2

\* number of users whose submissions the store already holds when the
\* process starts on a store carried over from an earlier run
NumCarried == 20

\* number of submissions the modelled clients add to a carried-over store
MaxOnCarried == 1

----------------------------------------------------------------------------
(* Program constants *)

\* {"$limit": 20}
LIMIT == 20

\* collections[:10]
COLLECTIONS_SHOWN == 10

DIFF_POINTS == [Easy |-> 100, Medium |-> 200, Hard |-> 300]

FLAG_WEB == <<"F","L","A","G","{","B","A","S","1","C","_","S","Q","L","I","}">>
FLAG_CRYPTO == <<"F","L","A","G","{","X","0","R","_","K","3","Y","}">>
FLAG_PWN == <<"F","L","A","G","{","0","V","3","R","F","L","0","W","}">>

ANONYMOUS == <<"a","n","o","n","y","m","o","u","s">>

\* the characters str.strip() removes from both ends
Whitespace == {" ", "\t", "\n", "\r", "\f"}

\* Ctfchallenge(...) samples of seed_challenges, in insertion order
samples ==
  << [challenge_id |-> "web-101", title |-> "Login Bypass Basics",
      category |-> "Web", difficulty |-> "Easy",
      description |-> "Bypass a weak login form using basic SQL injection techniques.",
      hint |-> "Try using logical operators to make a condition always true.",
      flag |-> FLAG_WEB, points |-> DIFF_POINTS["Easy"]],
     [challenge_id |-> "crypto-201", title |-> "XOR Secrets",
      category |-> "Crypto", difficulty |-> "Medium",
      description |-> "Recover a plaintext by analyzing repeated-key XOR.",
      hint |-> "Frequency analysis on XORed text can reveal the key.",
      flag |-> FLAG_CRYPTO, points |-> DIFF_POINTS["Medium"]],
     [challenge_id |-> "pwn-301", title |-> "Buffer Overflow Warmup",
      category |-> "Pwn", difficulty |-> "Hard",
      description |-> "Exploit a classic stack buffer overflow to overwrite return address.",
      hint |-> "Understand calling conventions and NOP sleds.",
      flag |-> FLAG_PWN, points |-> DIFF_POINTS["Hard"]] >>

----------------------------------------------------------------------------
(* Document store: insert, find-all, find-one-by-field, count *)

\* the value find_one returns when no document matches
None == [none |-> TRUE]

\* insert_one: the store assigns the identifier and appends the document
Stored(doc, id) ==
  [k \in DOMAIN doc \cup {"_id"} |-> IF k = "_id" THEN id ELSE doc[k]]

InsertOne(coll, doc, id) == Append(coll, Stored(doc, id))

\* a lookup that falls back to the first document when nothing matches
FindOne_Fallback(coll, cid) ==
  LET hits == SelectSeq(coll, LAMBDA d : d.challenge_id = cid)
  IN  IF hits # <<>> THEN Head(hits)
      ELSE IF coll # <<>> THEN Head(coll) ELSE None

\* find_one({"challenge_id": cid}): the first matching document, or None
FindOne(coll, cid) ==
  LET hits == SelectSeq(coll, LAMBDA d : d.challenge_id = cid)
  IN  IF hits = <<>> THEN None ELSE Head(hits)

\* count_documents({})
CountDocuments(coll) == Len(coll)

----------------------------------------------------------------------------
(* str.strip() *)

RECURSIVE LStrip(_)
LStrip(s) ==
  IF s # <<>> /\ Head(s) \in Whitespace THEN LStrip(Tail(s)) ELSE s

RECURSIVE RStrip(_)
RStrip(s) ==
  IF s # <<>> /\ s[Len(s)] \in Whitespace
    THEN RStrip(SubSeq(s, 1, Len(s) - 1))
    ELSE s

\* a trim of the left end only
Strip_LeftOnly(s) == LStrip(s)

Strip(s) == RStrip(LStrip(s))

----------------------------------------------------------------------------
(* list_challenges *)

\* a cleaning that renames the identifier and forgets to drop the flag
Cleaned_KeepFlag(d) ==
  LET kept == DOMAIN d \ {"_id"}
      keys == IF "_id" \in DOMAIN d THEN kept \cup {"id"} ELSE kept
  IN  [k \in keys |-> IF k = "id" THEN ToString(d["_id"]) ELSE d[k]]

\* d.pop("flag", None); if "_id" in d: d["id"] = str(d.pop("_id"))
Cleaned(d) ==
  LET kept == DOMAIN d \ {"flag", "_id"}
      keys == IF "_id" \in DOMAIN d THEN kept \cup {"id"} ELSE kept
  IN  [k \in keys |-> IF k = "id" THEN ToString(d["_id"]) ELSE d[k]]

\* the loop over docs
CleanedAll(docs) == [i \in 1..Len(docs) |-> Cleaned(docs[i])]

----------------------------------------------------------------------------
(* leaderboard: the aggregation pipeline *)

\* {"$match": {"correct": True}}
Match(docs) == SelectSeq(docs, LAMBDA d : d.correct)

\* a sum that misses the first document of the group
RECURSIVE SumAwarded_SkipFirst(_)
SumAwarded_SkipFirst(docs) ==
  IF docs = <<>> \/ Tail(docs) = <<>> THEN 0
  ELSE Head(Tail(docs)).points_awarded + SumAwarded_SkipFirst(Tail(docs))

\* {"$sum": "$points_awarded"} over the documents of one group
RECURSIVE SumAwarded(_)
SumAwarded(docs) ==
  IF docs = <<>> THEN 0
  ELSE Head(docs).points_awarded + SumAwarded(Tail(docs))

\* {"$group": {"_id": "$username", "points": {"$sum": "$points_awarded"}}}
\* one group per distinct username; the order of the groups is unspecified
Group(docs) ==
  LET names == {docs[i].username : i \in 1..Len(docs)}
  IN  {[_id |-> u,
        points |-> SumAwarded(SelectSeq(docs, LAMBDA d : d.username = u))]
       : u \in names}

\* {"$sort": {"points": -1}}: every order of the groups that is
\* non-increasing in points; groups with equal points come in any order
RECURSIVE SortDesc(_)
SortDesc(groups) ==
  IF groups = {} THEN {<<>>}
  ELSE LET top == {g \in groups : \A h \in groups : h.points <= g.points}
       IN  UNION {{<<g>> \o rest : rest \in SortDesc(groups \ {g})}
                  : g \in top}

\* a pipeline without the limit stage
Limit_None(rows, n) == rows

\* {"$limit": n}, and the slice [:n]
Limit(rows, n) == SubSeq(rows, 1, IF Len(rows) < n THEN Len(rows) ELSE n)

\* [{"user": r["_id"], "points": r["points"]} for r in rows]
Rows(rs) == [i \in 1..Len(rs) |-> [user |-> rs[i]._id, points |-> rs[i].points]]

\* every list the handler can return for a reachable store
Aggregate(docs) ==
  {Rows(Limit(sorted, LIMIT)) : sorted \in SortDesc(Group(Match(docs)))}

----------------------------------------------------------------------------
(* submit_flag *)

\* correct = payload.flag.strip() == ch.get("flag")
IsCorrect(flag, ch) == Strip(flag) = ch.flag

\* points granted whatever the verdict
Awarded_Always(ch, correct) == ch.points

\* points = int(ch.get("points", 0)) if correct else 0
Awarded(ch, correct) == IF correct THEN ch.points ELSE 0

\* payload.username.strip() or "anonymous"
Username(user) == IF Strip(user) = <<>> THEN ANONYMOUS ELSE Strip(user)

\* Ctfsubmission(...)
Ctfsubmission(cid, user, flag, correct, points) ==
  [challenge_id |-> cid, username |-> Username(user), submitted_flag |-> flag,
   correct |-> correct, points_awarded |-> points]

----------------------------------------------------------------------------
(* Responses *)

Returned(status, body) == [outcome |-> "returned", status |-> status, body |-> body]

\* raise HTTPException(status_code=..., detail=...)
HTTPException(status, detail) ==
  [outcome |-> "raised", status |-> status, body |-> [detail |-> detail]]

\* an exception no handler catches: the framework answers 500
Unhandled == [outcome |-> "raised", status |-> 500,
              body |-> [detail |-> "Internal Server Error"]]

----------------------------------------------------------------------------
(* Inputs *)

ChallengeIds == {"web-101", "crypto-201", "pwn-301", "no-such-id"}

Usernames ==
  { <<" ","a","l","i","c","e","\t">>,
    <<" "," ">> }

Flags ==
  { <<" ">> \o FLAG_WEB \o <<"\n">>,
    FLAG_CRYPTO,
    FLAG_PWN,
    <<"f","l","a","g","{","0","v","3","r","f","l","0","w","}">> }

----------------------------------------------------------------------------
(* A store carried over from an earlier run of the service: the three      *)
(* seeded challenges, and for i = 1..NumCarried a user whose correct       *)
(* submissions are worth 100 * i points in total.                          *)

CarriedName(i) == <<"u", ToString(i \div 10), ToString(i % 10)>>

\* the challenges user i solved, as indices into samples
CarriedSolves(i) ==
  [j \in 1..(i \div 3) |-> 3] \o (IF i % 3 = 0 THEN <<>> ELSE <<i % 3>>)

\* number of submissions of the users 1..i
RECURSIVE CarriedCount(_)
CarriedCount(i) ==
  IF i = 0 THEN 0 ELSE CarriedCount(i - 1) + Len(CarriedSolves(i))

\* the m-th carried submission: the one the judge stored for it
CarriedDoc(m) ==
  LET i == CHOOSE j \in 1..m : CarriedCount(j - 1) < m /\ m <= CarriedCount(j)
      s == samples[CarriedSolves(i)[m - CarriedCount(i - 1)]]
      correct == IsCorrect(s.flag, s)
  IN  Stored(Ctfsubmission(s.challenge_id, CarriedName(i), s.flag, correct,
                           Awarded(s, correct)),
             Len(samples) + m)

CarriedSubmissions == [m \in 1..CarriedCount(NumCarried) |-> CarriedDoc(m)]

CarriedChallenges ==
  InsertOne(InsertOne(InsertOne(<<>>, samples[1], 1), samples[2], 2), samples[3], 3)

CarriedNames == {CarriedName(i) : i \in 1..NumCarried}

\* submissions made by the modelled clients
Fresh(docs) == SelectSeq(docs, LAMBDA d : d.username \notin CarriedNames)

\* the submit calls the model still follows
WithinBounds ==
  /\ Len(Fresh(submissions)) < MaxSubs
  /\ Len(submissions) < Len(CarriedSubmissions) + MaxOnCarried

----------------------------------------------------------------------------
(* State after import of the modules, before seed_challenges() runs.       *)
(* db is the store handle of the database module: FALSE stands for None.   *)
(* The store is either empty or carried over from an earlier run.          *)

Init ==
  /\ db \in BOOLEAN
  /\ \/ /\ challenges = <<>>
        /\ submissions = <<>>
        /\ nextId = 1
     \/ /\ db
        /\ challenges = CarriedChallenges
        /\ submissions = CarriedSubmissions
        /\ nextId = Len(samples) + Len(CarriedSubmissions) + 1
  /\ req = [op |-> "import"]
  /\ resp = Returned(0, <<>>)

----------------------------------------------------------------------------
(* seed_challenges *)

\* seeding without the emptiness guard
SeedNeeded_Always(count) == TRUE

\* if count == 0
SeedNeeded(count) == count = 0

\* for s in samples: try: create_document(...) except: pass
\* failed is the set of samples whose insert raises
RECURSIVE InsertSamples(_, _, _, _)
InsertSamples(coll, id, k, failed) ==
  IF k > Len(samples) THEN coll
  ELSE IF k \in failed
    THEN InsertSamples(coll, id, k + 1, failed)
    ELSE InsertSamples(InsertOne(coll, samples[k], id), id + 1, k + 1, failed)

\* the try/except around the whole body: seeding returns whatever happens
SeedOutcome(reachable, failed) == Returned(0, <<>>)

\* reachable: count_documents answers; failed: the inserts that raise,
\* among those the loop attempts
Seed ==
  \E reachable \in BOOLEAN :
  \E failed \in (IF db /\ reachable /\ SeedNeeded(CountDocuments(challenges))
                   THEN SUBSET (1..Len(samples)) ELSE {{}}) :
    LET seeded == IF db /\ reachable /\ SeedNeeded(CountDocuments(challenges))
                    THEN InsertSamples(challenges, nextId, 1, failed)
                    ELSE challenges
    IN  /\ challenges' = seeded
        /\ nextId' = nextId + (Len(seeded) - Len(challenges))
        /\ req' = [op |-> "seed", reachable |-> reachable, failed |-> failed]
        /\ resp' = SeedOutcome(reachable, failed)
        /\ UNCHANGED <<db, submissions>>

----------------------------------------------------------------------------
(* GET / and GET /test *)

ReadRoot ==
  /\ req' = [op |-> "root"]
  /\ resp' = Returned(200, [message |-> "CTF backend running"])
  /\ UNCHANGED <<db, challenges, submissions, nextId>>

\* db.list_collection_names(): a collection exists once it holds a document
CollectionNames ==
  (IF challenges = <<>> THEN <<>> ELSE <<"ctfchallenge">>)
  \o (IF submissions = <<>> THEN <<>> ELSE <<"ctfsubmission">>)

\* os.getenv("DATABASE_URL"), os.getenv("DATABASE_NAME"): which of the two
\* settings are present; the database module builds the handle from both
EnvSettings ==
  IF db THEN {[url |-> TRUE, name |-> TRUE]}
  ELSE [url : BOOLEAN, name : BOOLEAN]

TestDatabase ==
  \E reachable \in BOOLEAN, env \in EnvSettings :
    /\ req' = [op |-> "test", reachable |-> reachable]
    /\ resp' = Returned(200,
         [backend |-> "Running",
          database_url |-> IF env.url THEN "Set" ELSE "Not Set",
          database_name |-> IF env.name THEN "Set" ELSE "Not Set",
          database |-> IF ~db THEN "Available but not initialized"
                       ELSE IF reachable THEN "Connected & Working"
                       ELSE "Connected but Error",
          connection_status |-> IF db THEN "Connected" ELSE "Not Connected",
          collections |-> IF db /\ reachable
                            THEN Limit(CollectionNames, COLLECTIONS_SHOWN)
                            ELSE <<>>])
    /\ UNCHANGED <<db, challenges, submissions, nextId>>

----------------------------------------------------------------------------
(* GET /api/ctf/challenges *)

ListChallenges ==
  \E reachable \in BOOLEAN :
    /\ req' = [op |-> "list", reachable |-> reachable]
    /\ resp' = IF db /\ reachable
                 THEN Returned(200, CleanedAll(challenges))
                 ELSE Returned(200, <<>>)
    /\ UNCHANGED <<db, challenges, submissions, nextId>>

----------------------------------------------------------------------------
(* GET /api/ctf/leaderboard *)

\* every body the handler can return
LeaderboardBodies(reachable) ==
  IF db /\ reachable THEN Aggregate(submissions) ELSE {<<>>}

Leaderboard ==
  \E reachable \in BOOLEAN :
    \E rows \in LeaderboardBodies(reachable) :
      /\ req' = [op |-> "leaderboard", reachable |-> reachable]
      /\ resp' = Returned(200, rows)
      /\ UNCHANGED <<db, challenges, submissions, nextId>>

----------------------------------------------------------------------------
(* POST /api/ctf/submit *)

\* a handler that lets the write failure escape
SubmitResponse_Surface(correct, points, written) ==
  IF written THEN Returned(200, [correct |-> correct, points |-> points])
  ELSE Unhandled

\* return {"correct": correct, "points": points}, reached whether or not
\* create_document raised (written)
SubmitResponse(correct, points, written) ==
  Returned(200, [correct |-> correct, points |-> points])

\* a write that is repeated
Written_Twice(coll, sub, id, writeOk) ==
  IF writeOk THEN InsertOne(InsertOne(coll, sub, id), sub, id + 1) ELSE coll

\* try: create_document("ctfsubmission", sub) except Exception: pass
Written(coll, sub, id, writeOk) ==
  IF writeOk THEN InsertOne(coll, sub, id) ELSE coll

\* reachable: find_one answers; writeOk: create_document succeeds
SubmitFlag(cid, user, flag, reachable, writeOk) ==
  /\ req' = [op |-> "submit", challenge_id |-> cid, flag |-> flag,
             reachable |-> reachable, writeOk |-> writeOk]
  /\ IF ~db
       THEN /\ resp' = HTTPException(503, "Database unavailable")
            /\ UNCHANGED <<submissions, nextId>>
     ELSE IF ~reachable
       THEN /\ resp' = Unhandled
            /\ UNCHANGED <<submissions, nextId>>
     ELSE LET ch == FindOne(challenges, cid) IN
       IF ch = None
         THEN /\ resp' = HTTPException(404, "Challenge not found")
              /\ UNCHANGED <<submissions, nextId>>
         ELSE LET correct == IsCorrect(flag, ch)
                  points == Awarded(ch, correct)
                  sub == Ctfsubmission(cid, user, flag, correct, points)
                  stored == Written(submissions, sub, nextId, writeOk)
              IN  /\ submissions' = stored
                  /\ nextId' = nextId + (Len(stored) - Len(submissions))
                  /\ resp' = SubmitResponse(correct, points, writeOk)
  /\ UNCHANGED <<db, challenges>>

Submit ==
  /\ WithinBounds
  /\ \E cid \in ChallengeIds, user \in Usernames, flag \in Flags,
        reachable \in BOOLEAN :
     \E writeOk \in (IF db /\ reachable THEN BOOLEAN ELSE {TRUE}) :
       SubmitFlag(cid, user, flag, reachable, writeOk)

----------------------------------------------------------------------------

Next ==
  \/ Seed
  \/ ReadRoot
  \/ TestDatabase
  \/ ListChallenges
  \/ Leaderboard
  \/ Submit

Spec == Init /\ [][Next]_vars

----------------------------------------------------------------------------
(* Vocabulary of the properties, written without the handlers' operators  *)

StoredChallenges == {challenges[i] : i \in 1..Len(challenges)}

Matching(cid) == {c \in StoredChallenges : c.challenge_id = cid}

\* t is s without its leading and trailing whitespace
TrimsTo(s, t) ==
  \E i \in 1..(Len(s) + 1), j \in 0..Len(s) :
    /\ \A k \in 1..Len(s) : (k < i \/ k > j) => s[k] \in Whitespace
    /\ \A k \in 1..Len(s) : (k = i \/ k = j) /\ i <= j => s[k] \notin Whitespace
    /\ t = SubSeq(s, i, j)
    /\ i <= j + 1

\* the verdict and the points the judge owes for flag on challenge c
Verdict(flag, c) ==
  [correct |-> TrimsTo(flag, c.flag),
   points |-> IF TrimsTo(flag, c.flag) THEN c.points ELSE 0]

\* sum of points_awarded over the correct submissions of u among docs[1..n]
RECURSIVE TotalUpTo(_, _, _)
TotalUpTo(u, docs, n) ==
  IF n = 0 THEN 0
  ELSE TotalUpTo(u, docs, n - 1)
       + (IF docs[n].username = u /\ docs[n].correct
            THEN docs[n].points_awarded ELSE 0)

Total(u, docs) == TotalUpTo(u, docs, Len(docs))

Scorers(docs) == {docs[i].username : i \in {k \in 1..Len(docs) : docs[k].correct}}

\* the total a leaderboard body reports for u: 0 when it has no row for u
Reported(rows, u) ==
  IF \E i \in 1..Len(rows) : rows[i].user = u
    THEN LET i == CHOOSE k \in 1..Len(rows) : rows[k].user = u IN rows[i].points
    ELSE 0

Listed(rows) == {rows[i].user : i \in 1..Len(rows)}

IsPrefix(a, b) == Len(a) <= Len(b) /\ SubSeq(b, 1, Len(a)) = a

\* the submit call reached the judge: handle, lookup and challenge are there
Judged ==
  /\ req.op = "submit"
  /\ db
  /\ req.reachable
  /\ Matching(req.challenge_id) # {}

----------------------------------------------------------------------------
\* C1: every challenge object the list operation returns has no flag field
\* and has an id field (its fields are the eight public ones), a returned
\* submit response holds exactly correct and points, and no response body
\* of any endpoint has a field named flag.
C1_FlagNeverReturned ==
  /\ req.op = "list" =>
       \A i \in 1..Len(resp.body) :
         /\ "flag" \notin DOMAIN resp.body[i]
         /\ "id" \in DOMAIN resp.body[i]
         /\ DOMAIN resp.body[i] =
              {"id", "challenge_id", "title", "category", "difficulty",
               "description", "hint", "points"}
  /\ (req.op = "submit" /\ resp.outcome = "returned") =>
       DOMAIN resp.body = {"correct", "points"}
  /\ (req.op = "submit" /\ resp.outcome = "raised") =>
       DOMAIN resp.body = {"detail"}
  /\ req.op = "leaderboard" =>
       \A i \in 1..Len(resp.body) : DOMAIN resp.body[i] = {"user", "points"}

\* the list operation has returned all three seeded challenges
C1_Witness ==
  /\ req.op = "list"
  /\ Len(resp.body) = 3
  /\ \A i \in 1..3 : resp.body[i].challenge_id = samples[i].challenge_id

\* C2: every stored Submission references a stored Challenge, carries that
\* Challenge's points when correct is true and 0 points when it is false.
C2_PointsAwarded ==
  \A i \in 1..Len(submissions) :
    LET sub == submissions[i] IN
      /\ Matching(sub.challenge_id) # {}
      /\ \A c \in Matching(sub.challenge_id) :
           sub.points_awarded = IF sub.correct THEN c.points ELSE 0

\* a client's correct submission and a client's incorrect one are stored
C2_Witness ==
  /\ Len(submissions) >= 2
  /\ Len(challenges) = 3
  /\ nextId <= Len(samples) + MaxSubs + 1
  /\ \E i, j \in 1..Len(submissions) :
       /\ submissions[i].correct /\ submissions[i].points_awarded = 200
       /\ ~submissions[j].correct /\ submissions[j].points_awarded = 0

\* C3: a submit call that reaches the judge returns correct = true and the
\* challenge's points exactly when the trimmed flag equals the stored flag
\* (case-sensitive), and correct = false with 0 points otherwise; the seeded
\* challenges are worth 100, 200 and 300.
C3_JudgeVerdict ==
  Judged =>
    /\ resp.outcome = "returned"
    /\ resp.status = 200
    /\ \A c \in Matching(req.challenge_id) :
         /\ resp.body = Verdict(req.flag, c)
         /\ (resp.body.correct /\ c.challenge_id = "web-101") => resp.body.points = 100
         /\ (resp.body.correct /\ c.challenge_id = "crypto-201") => resp.body.points = 200
         /\ (resp.body.correct /\ c.challenge_id = "pwn-301") => resp.body.points = 300

\* a flag sent with surrounding whitespace has been judged correct
C3_Witness ==
  /\ Judged
  /\ req.challenge_id = "web-101"
  /\ req.flag # FLAG_WEB
  /\ resp.body = [correct |-> TRUE, points |-> 100]

\* C4: a submit call whose challenge_id matches no stored challenge fails
\* with 404 and leaves both collections as they were.
C4_UnknownChallenge ==
  [][(req'.op = "submit" /\ db /\ req'.reachable
        /\ Matching(req'.challenge_id) = {})
       => /\ resp' = [outcome |-> "raised", status |-> 404,
                      body |-> [detail |-> "Challenge not found"]]
          /\ submissions' = submissions
          /\ challenges' = challenges]_vars

\* an unknown challenge_id was submitted to a store that holds challenges
C4_Witness ==
  /\ req.op = "submit"
  /\ db
  /\ req.reachable
  /\ challenges # <<>>
  /\ Matching(req.challenge_id) = {}
  /\ resp.status = 404

\* C5: a submit call made while the store is unreachable (no handle, or the
\* lookup fails) fails with 503.
C5_Unreachable503 ==
  (req.op = "submit" /\ (~db \/ ~req.reachable)) =>
    (resp.outcome = "raised" /\ resp.status = 503)

\* a step that adds one correct submission to the collection
AddedCorrect ==
  /\ Len(submissions') = Len(submissions) + 1
  /\ IsPrefix(submissions, submissions')
  /\ submissions'[Len(submissions')].correct

\* C6 as stated: after one more correct submission worth p for user u, the
\* total every leaderboard body reports for u is p more than before, and the
\* total reported for any other user has not decreased.
C6_ReportedTotals ==
  [][AddedCorrect =>
       LET sub == submissions'[Len(submissions')]
           u == sub.username
           p == sub.points_awarded
       IN  \A before \in Aggregate(submissions), after \in Aggregate(submissions') :
             /\ Reported(after, u) = Reported(before, u) + p
             /\ \A v \in Listed(before) \ {u} :
                  Reported(after, v) >= Reported(before, v)]_vars

\* C6, amended: after one more correct submission worth p for user u, the
\* sum over u's correct submissions is p more than before and no other
\* user's sum has changed; every row the leaderboard then returns carries
\* that sum, so a user listed before and after shows p more (u) or the same
\* total (anyone else), and u is listed whenever at most 20 users have
\* scored.  A user outside the 20 rows has no reported total.
C6_SumsMonotonic ==
  [][AddedCorrect =>
       LET sub == submissions'[Len(submissions')]
           u == sub.username
           p == sub.points_awarded
           befores == Aggregate(submissions)
           afters == Aggregate(submissions')
       IN  /\ Total(u, submissions') = Total(u, submissions) + p
           /\ \A v \in Scorers(submissions') \ {u} :
                Total(v, submissions') = Total(v, submissions)
           /\ \A after \in afters :
                /\ \A i \in 1..Len(after) :
                     after[i].points =
                       Total(after[i].user, submissions)
                         + (IF after[i].user = u THEN p ELSE 0)
                /\ Cardinality(Scorers(submissions')) <= 20 => u \in Listed(after)
                /\ \A before \in befores :
                     \A v \in Listed(before) \cap Listed(after) :
                       Reported(after, v) =
                         Reported(before, v) + (IF v = u THEN p ELSE 0)]_vars

\* a user has solved, and been credited for, a challenge they had already
\* solved
C6_Witness ==
  /\ req.op = "submit"
  /\ Len(submissions) >= 2
  /\ LET n == Len(submissions) IN
       /\ submissions[n].correct
       /\ \E i \in 1..(n - 1) :
            /\ submissions[i].correct
            /\ submissions[i].username = submissions[n].username
            /\ submissions[i].challenge_id = submissions[n].challenge_id
       /\ \A rows \in Aggregate(submissions) :
            Reported(rows, submissions[n].username)
              = 2 * submissions[n].points_awarded

\* rows is a well-formed leaderboard of the stored submissions
BoardOK(rows) ==
  /\ Len(rows) <= 20
  /\ \A i, j \in 1..Len(rows) :
       /\ i < j => rows[i].points >= rows[j].points
       /\ i # j => rows[i].user # rows[j].user
  /\ \A i \in 1..Len(rows) :
       /\ rows[i].user \in Scorers(submissions)
       /\ rows[i].points = Total(rows[i].user, submissions)

\* C7: whatever the leaderboard operation returns has at most 20 rows, in
\* non-increasing order of points, no two rows for the same username, each
\* row carrying the sum of points_awarded over that user's correct
\* submissions; with a reachable store every scorer has a row, up to 20.
C7_LeaderboardShape ==
  /\ \A reachable \in BOOLEAN :
       \A rows \in LeaderboardBodies(reachable) :
         /\ BoardOK(rows)
         /\ (db /\ reachable) =>
              Len(rows) = IF Cardinality(Scorers(submissions)) < 20
                            THEN Cardinality(Scorers(submissions)) ELSE 20
  /\ req.op = "leaderboard" => BoardOK(resp.body)

\* the leaderboard has returned 20 rows while more than 20 users have scored
C7_Witness ==
  /\ req.op = "leaderboard"
  /\ Len(resp.body) = 20
  /\ Cardinality(Scorers(submissions)) > 20

ChallengeIdsOf(coll) == [i \in 1..Len(coll) |-> coll[i].challenge_id]

\* C8: seeding always returns normally; run on an empty collection of a
\* reachable store with no failing insert it stores exactly web-101,
\* crypto-201 and pwn-301; run on a non-empty collection it stores nothing;
\* no two stored challenges ever share a challenge_id.
C8_SeedIdempotent ==
  [][req'.op = "seed" =>
       /\ resp'.outcome = "returned"
       /\ (challenges = <<>> /\ db /\ req'.reachable /\ req'.failed = {}) =>
            ChallengeIdsOf(challenges') = <<"web-101", "crypto-201", "pwn-301">>
       /\ challenges # <<>> => challenges' = challenges
       /\ (~db \/ ~req'.reachable) => challenges' = challenges
       /\ IsPrefix(challenges, challenges')
       /\ \A i, j \in 1..Len(challenges') :
            i # j => challenges'[i].challenge_id # challenges'[j].challenge_id
       /\ submissions' = submissions]_vars

\* seeding has run again on the store it had filled
C8_Witness ==
  /\ req.op = "seed"
  /\ req.reachable
  /\ db
  /\ ChallengeIdsOf(challenges) = <<"web-101", "crypto-201", "pwn-301">>
  /\ submissions # <<>>
  /\ nextId <= Len(samples) + MaxSubs + 1

\* C9: when the write of the Submission fails after the judge has run, the
\* call raises nothing: it returns 200 with the verdict and the points the
\* judge computed, as it does when the write succeeds.
C9_WriteFailureSwallowed ==
  (Judged /\ ~req.writeOk) =>
    /\ resp.outcome = "returned"
    /\ resp.status = 200
    /\ DOMAIN resp.body = {"correct", "points"}
    /\ \A c \in Matching(req.challenge_id) :
         /\ resp.body.correct = TrimsTo(req.flag, c.flag)
         /\ resp.body.points = (IF resp.body.correct THEN c.points ELSE 0)

\* a correct flag was acknowledged although its submission was not stored
C9_Witness ==
  /\ Judged
  /\ ~req.writeOk
  /\ resp.status = 200
  /\ resp.body.correct
  /\ resp.body.points = 300

\* C10 as stated: every submit call adds exactly one Submission, no other
\* step adds one, and no step changes or removes a stored Submission.
C10_OnePerCall ==
  [][/\ IsPrefix(submissions, submissions')
     /\ req'.op = "submit" <=> Len(submissions') = Len(submissions) + 1
     /\ req'.op # "submit" => submissions' = submissions]_vars

\* C10, amended: a submit call adds exactly one Submission when it reaches
\* the judge and the write succeeds, and none when it fails (503, 404, a
\* failed lookup) or the write fails; no other operation adds one; no step
\* changes or removes a stored Submission.
C10_AtMostOnePerCall ==
  [][/\ IsPrefix(submissions, submissions')
     /\ Len(submissions') <= Len(submissions) + 1
     /\ (/\ req'.op = "submit"
         /\ db
         /\ req'.reachable
         /\ req'.writeOk
         /\ Matching(req'.challenge_id) # {})
          <=> Len(submissions') = Len(submissions) + 1
     /\ req'.op # "submit" => submissions' = submissions]_vars

\* a submit call has stored its Submission after earlier ones
C10_Witness ==
  /\ Judged
  /\ req.writeOk
  /\ Len(submissions) >= 2
  /\ submissions[Len(submissions)]._id = nextId - 1
  /\ submissions[Len(submissions)].submitted_flag = req.flag
  /\ submissions[Len(submissions)].challenge_id = req.challenge_id

====
